---- MODULE Spec2Model ----
(***************************************************************************)
(* AndroidWindowedAppContext (xenia/ui/windowed_app_context_android.cc):   *)
(* the context ("Bridge") registered with the UI thread's ALooper through  *)
(* a pipe, the commands sent through the pipe by any thread, the looper    *)
(* callback that dispatches them, and the destruction protocol.            *)
(*                                                                         *)
(* The UI (loop) thread runs its handlers to completion one after another, *)
(* so each of them is one action.  Calls made by other threads are split   *)
(* at every access to the context, so that they interleave with the UI     *)
(* thread and with each other.                                             *)
(***************************************************************************)
EXTENDS Naturals, Sequences, FiniteSets

\* Bounds of the model.
NumWorkers == 2
MaxCalls == 1
\* The number of commands a pipe holds, in the runs that start with a small pipe.
SmallPipe == 2

\* Threads: the UI thread owning the looper, and the other threads.
UI == 0
Workers == 1..NumWorkers

\* UIThreadLooperCallbackCommand
kDestroy == "kDestroy"
kExecutePendingFunctions == "kExecutePendingFunctions"

\* Stages of JniActivityInitializeWindowedAppOnCreate / Initialize that can fail.
FailStages == {"none", "creator", "early", "looper", "pipe", "addFd"}
\* Event sets the looper can hand to the callback, by the branch they select.
EventKinds == {"error", "none", "input"}
\* Results of read(fd, &command, sizeof(command)).
ReadResults == {"ok", "err", "short"}

VARIABLES
  ctx,    \* the AndroidWindowedAppContext object: its storage and its fields
  sys,    \* the platform: the pipe, the looper, the activity, the result of Create
  obs,    \* what has been observed so far (counters and flags over the history)
  pc,     \* pc[w]: where worker thread w is inside its current call
  calls   \* calls[w]: the number of calls worker thread w has started

vars == <<ctx, sys, obs, pc, calls>>

World == [ctx |-> ctx, sys |-> sys, obs |-> obs]
Commit(s) == ctx' = s.ctx /\ sys' = s.sys /\ obs' = s.obs

NoCall == [called |-> FALSE, flag |-> FALSE, sent |-> FALSE, deleted |-> FALSE]

InitCtx ==
  [alloc |-> "none",                                 \* "none", "live", "freed"
   ui_thread_looper_callback_registered_ |-> FALSE,
   ui_thread_looper_callback_pipe_ |-> <<FALSE, FALSE>>,  \* TRUE: an open fd, FALSE: -1
   ui_thread_looper_ |-> FALSE,                      \* TRUE: not null
   app_ |-> "null",
   activity_ |-> FALSE]                              \* activity_ and activity_method_finish_

InitSys ==
  [pipe |-> <<>>,              \* the commands in the pipe
   small_pipe |-> FALSE,       \* the pipe holds SmallPipe commands only; otherwise
                               \* it holds every command the calls made can write
   broken |-> FALSE,           \* the pipe is in a fatal state: polling it reports
                               \* an error, a hangup or an invalid descriptor, or
                               \* reading it fails
   fd_registered |-> FALSE,    \* the looper polls the read end
   last_call |-> FALSE,        \* a callback already signalled when the fd was removed
   acquires |-> 0, releases |-> 0,   \* ALooper_acquire / ALooper_release
   res_log |-> <<>>,           \* the calls that took and gave back the looper, the
                               \* pipe and the registration, in the order made
   opens |-> 0,                \* descriptors opened by pipe()
   closes |-> 0,               \* close() calls
   removes |-> 0,              \* ALooper_removeFd calls
   wakes |-> 0,                \* ALooper_wake calls
   finish_requested |-> FALSE, \* Activity.finish() has been called
   on_destroy_called |-> FALSE,\* the activity's onDestroy has run
   create_result |-> "none"]   \* "none", "ok" (a context returned), "failed" (nullptr)

InitObs ==
  [deletes |-> 0,              \* delete expressions executed on the context
   del_site |-> "none",        \* where it was deleted: "create", "caller", "callback"
   del_thread |-> UI,
   uaf |-> FALSE,              \* a field of the freed context was read or written
   rd_uaf |-> FALSE,           \* ... by RequestDestruction
   flag_off_loop |-> FALSE,    \* the registration flag was read or written by a
                               \* thread other than UI
   init_fail |-> "none",       \* the step of Initialize that failed
   iod |-> 0,                  \* InvokeOnDestroy calls
   iod_off_loop |-> FALSE,     \* InvokeOnDestroy called by a thread other than UI
   iod_on_null |-> FALSE,      \* InvokeOnDestroy called through a null app_
   cb_iod |-> 0,               \* InvokeOnDestroy calls made inside the callback
   record_cb |-> FALSE,        \* whether last_cb is kept
   last_cb |-> <<>>,           \* the events and the result of read of the latest
                               \* invocation of the callback
   rd |-> NoCall,              \* the last RequestDestruction call of the UI thread
   quits |-> 0,                \* QuitFromUIThread calls
   fatal_active |-> FALSE,     \* a fatal condition was seen while app_ was present
   dispatched |-> 0,           \* commands dispatched by the callback
   runner |-> 0,               \* ExecutePendingFunctionsFromUIThread calls
   writes |-> 0,               \* whole commands written to the pipe
   destroy_sent |-> FALSE,     \* a kDestroy was written to the pipe
   destroy_sent_sound |-> FALSE, \* ... while the pipe was not in a fatal state
   destroy_dispatched |-> FALSE,
   oninit_failed |-> FALSE,    \* OnInitialize returned false
   ok_sends |-> FALSE,         \* a worker's kExecutePendingFunctions write succeeded
   pending_epf |-> FALSE,      \* ... and the runner has not run since that write
   run_since_return |-> FALSE] \* the runner ran after the last such call returned

Init ==
  /\ ctx = InitCtx
  /\ sys = InitSys
  /\ obs = InitObs
  /\ pc = [w \in Workers |-> "idle"]
  /\ calls = [w \in Workers |-> 0]

\* The same initial state, with the invocations of the callback recorded.
InitRecorded ==
  /\ ctx = InitCtx
  /\ sys = InitSys
  /\ obs = [InitObs EXCEPT !.record_cb = TRUE]
  /\ pc = [w \in Workers |-> "idle"]
  /\ calls = [w \in Workers |-> 0]

\* The same initial state, with a pipe that holds SmallPipe commands.
InitSmallPipe ==
  /\ ctx = InitCtx
  /\ sys = [InitSys EXCEPT !.small_pipe = TRUE]
  /\ obs = InitObs
  /\ pc = [w \in Workers |-> "idle"]
  /\ calls = [w \in Workers |-> 0]

Live(s) == s.ctx.alloc = "live"

\* The pipe is created by pipe() (line 203), with no O_NONBLOCK: a write returns
\* only once the pipe has room for the command.  Fits(s): the commands of s are
\* not more than the pipe holds.
Fits(s) == s.sys.small_pipe => Len(s.sys.pipe) <= SmallPipe

----------------------------------------------------------------------------
\* The platform calls the context makes.

\* A pipe that hands out the command written last first.
PipeWrite_Stack(s, command) ==
  [s EXCEPT !.sys.pipe = <<command>> \o @,
            !.obs.writes = @ + 1,
            !.obs.destroy_sent = @ \/ (command = kDestroy),
            !.obs.destroy_sent_sound = @ \/ (command = kDestroy /\ ~s.sys.broken)]

\* write(ui_thread_looper_callback_pipe_[1], &command, sizeof(command)) of a whole command
PipeWrite(s, command) ==
  [s EXCEPT !.sys.pipe = Append(@, command),
            !.obs.writes = @ + 1,
            !.obs.destroy_sent = @ \/ (command = kDestroy),
            !.obs.destroy_sent_sound = @ \/ (command = kDestroy /\ ~s.sys.broken)]

ALooper_wake(s) == [s EXCEPT !.sys.wakes = @ + 1]

\* ALooper_removeFd: the callback may still run one last time if the fd was
\* already signalled.
ALooper_removeFd(s) ==
  [s EXCEPT !.sys.fd_registered = FALSE,
            !.sys.removes = @ + 1,
            !.sys.res_log = Append(@, "removeFd"),
            !.sys.last_call = @ \/ (s.sys.fd_registered /\ s.sys.pipe # <<>>)]

\* app_->InvokeOnDestroy() called by thread t
InvokeOnDestroy(s, t) ==
  [s EXCEPT !.obs.iod = @ + 1,
            !.obs.iod_off_loop = @ \/ (t # UI),
            !.obs.iod_on_null = @ \/ (s.ctx.app_ = "null")]

\* if (app_) { app_->InvokeOnDestroy(); app_.reset(); }
DestroyApp(s, t) ==
  IF s.ctx.app_ # "null"
    THEN [InvokeOnDestroy(s, t) EXCEPT !.ctx.app_ = "null"]
    ELSE s

----------------------------------------------------------------------------
\* The context's methods, as functions from the world before to the world after.

\* Shutdown that releases the looper before it closes the pipe.
Shutdown_ReleasesFirst(s, t) ==
  LET s1 == DestroyApp(s, t)
      s2 == IF s1.ctx.ui_thread_looper_callback_registered_
              THEN [ALooper_removeFd(s1) EXCEPT
                      !.ctx.ui_thread_looper_callback_registered_ = FALSE]
              ELSE s1
      s3 == IF s2.ctx.ui_thread_looper_
              THEN [s2 EXCEPT !.sys.releases = @ + 1,
                              !.sys.res_log = Append(@, "release"),
                              !.ctx.ui_thread_looper_ = FALSE]
              ELSE s2
      open == {i \in 1..2 : s3.ctx.ui_thread_looper_callback_pipe_[i]}
      s4 == [s3 EXCEPT !.ctx.ui_thread_looper_callback_pipe_ = <<FALSE, FALSE>>,
                       !.sys.closes = @ + Cardinality(open),
                       !.sys.res_log = IF open = {} THEN @ ELSE Append(@, "close"),
                       !.sys.pipe = IF open = {} THEN @ ELSE <<>>]
  IN [s4 EXCEPT !.ctx.activity_ = FALSE,
                !.obs.flag_off_loop = @ \/ (t # UI)]

\* Shutdown that closes the descriptors of the pipe without setting them to -1.
Shutdown_FdsNotReset(s, t) ==
  LET s1 == DestroyApp(s, t)
      s2 == IF s1.ctx.ui_thread_looper_callback_registered_
              THEN [ALooper_removeFd(s1) EXCEPT
                      !.ctx.ui_thread_looper_callback_registered_ = FALSE]
              ELSE s1
      open == {i \in 1..2 : s2.ctx.ui_thread_looper_callback_pipe_[i]}
      s3 == [s2 EXCEPT !.sys.closes = @ + Cardinality(open),
                       !.sys.res_log = IF open = {} THEN @ ELSE Append(@, "close"),
                       !.sys.pipe = IF open = {} THEN @ ELSE <<>>]
      s4 == IF s3.ctx.ui_thread_looper_
              THEN [s3 EXCEPT !.sys.releases = @ + 1,
                              !.sys.res_log = Append(@, "release"),
                              !.ctx.ui_thread_looper_ = FALSE]
              ELSE s3
  IN [s4 EXCEPT !.ctx.activity_ = FALSE,
                !.obs.flag_off_loop = @ \/ (t # UI)]

\* Shutdown that releases the looper without setting ui_thread_looper_ to null.
Shutdown_LooperNotNulled(s, t) ==
  LET s1 == DestroyApp(s, t)
      s2 == IF s1.ctx.ui_thread_looper_callback_registered_
              THEN [ALooper_removeFd(s1) EXCEPT
                      !.ctx.ui_thread_looper_callback_registered_ = FALSE]
              ELSE s1
      open == {i \in 1..2 : s2.ctx.ui_thread_looper_callback_pipe_[i]}
      s3 == [s2 EXCEPT !.ctx.ui_thread_looper_callback_pipe_ = <<FALSE, FALSE>>,
                       !.sys.closes = @ + Cardinality(open),
                       !.sys.res_log = IF open = {} THEN @ ELSE Append(@, "close"),
                       !.sys.pipe = IF open = {} THEN @ ELSE <<>>]
      s4 == IF s3.ctx.ui_thread_looper_
              THEN [s3 EXCEPT !.sys.releases = @ + 1,
                              !.sys.res_log = Append(@, "release")]
              ELSE s3
  IN [s4 EXCEPT !.ctx.activity_ = FALSE,
                !.obs.flag_off_loop = @ \/ (t # UI)]

\* Shutdown that forgets ALooper_release.
Shutdown_KeepsLooper(s, t) ==
  LET s1 == DestroyApp(s, t)
      s2 == IF s1.ctx.ui_thread_looper_callback_registered_
              THEN [ALooper_removeFd(s1) EXCEPT
                      !.ctx.ui_thread_looper_callback_registered_ = FALSE]
              ELSE s1
      open == {i \in 1..2 : s2.ctx.ui_thread_looper_callback_pipe_[i]}
      s3 == [s2 EXCEPT !.ctx.ui_thread_looper_callback_pipe_ = <<FALSE, FALSE>>,
                       !.sys.closes = @ + Cardinality(open),
                       !.sys.res_log = IF open = {} THEN @ ELSE Append(@, "close"),
                       !.sys.pipe = IF open = {} THEN @ ELSE <<>>]
  IN [s3 EXCEPT !.ctx.ui_thread_looper_ = FALSE, !.ctx.activity_ = FALSE,
                !.obs.flag_off_loop = @ \/ (t # UI)]

\* AndroidWindowedAppContext::Shutdown, run by thread t
Shutdown(s, t) ==
  LET s1 == DestroyApp(s, t)
      s2 == IF s1.ctx.ui_thread_looper_callback_registered_
              THEN [ALooper_removeFd(s1) EXCEPT
                      !.ctx.ui_thread_looper_callback_registered_ = FALSE]
              ELSE s1
      open == {i \in 1..2 : s2.ctx.ui_thread_looper_callback_pipe_[i]}
      s3 == [s2 EXCEPT !.ctx.ui_thread_looper_callback_pipe_ = <<FALSE, FALSE>>,
                       !.sys.closes = @ + Cardinality(open),
                       !.sys.res_log = IF open = {} THEN @ ELSE Append(@, "close"),
                       !.sys.pipe = IF open = {} THEN @ ELSE <<>>]
      s4 == IF s3.ctx.ui_thread_looper_
              THEN [s3 EXCEPT !.sys.releases = @ + 1,
                              !.sys.res_log = Append(@, "release"),
                              !.ctx.ui_thread_looper_ = FALSE]
              ELSE s3
  IN [s4 EXCEPT !.ctx.activity_ = FALSE,
                !.obs.flag_off_loop = @ \/ (t # UI)]

\* delete of the context by thread t: ~AndroidWindowedAppContext() { Shutdown(); }
\* and the release of the storage.  Deleting a context that is already freed is a
\* double free.
Delete(s, t, site) ==
  IF Live(s)
    THEN [Shutdown(s, t) EXCEPT !.ctx.alloc = "freed",
                                !.obs.deletes = @ + 1,
                                !.obs.del_site = site,
                                !.obs.del_thread = t]
    ELSE [s EXCEPT !.obs.deletes = @ + 1, !.obs.uaf = TRUE]

\* RequestDestruction that wakes the looper although the write has failed.
RequestDestruction_WakesOnFailure(s, t, writeOk) ==
  IF ~s.ctx.ui_thread_looper_callback_registered_
    THEN Delete(s, t, "caller")
    ELSE IF ~writeOk
      THEN Delete(ALooper_wake(s), t, "caller")
      ELSE ALooper_wake(PipeWrite(s, kDestroy))

\* RequestDestruction that goes on to delete the context after a successful write.
RequestDestruction_DeleteAfterSend(s, t, writeOk) ==
  IF ~s.ctx.ui_thread_looper_callback_registered_
    THEN Delete(s, t, "caller")
    ELSE IF ~writeOk
      THEN Delete(s, t, "caller")
      ELSE Delete(ALooper_wake(PipeWrite(s, kDestroy)), t, "caller")

\* RequestDestruction that does not look at the registration flag.
RequestDestruction_IgnoresFlag(s, t, writeOk) ==
  IF ~writeOk
    THEN Delete(s, t, "caller")
    ELSE ALooper_wake(PipeWrite(s, kDestroy))

\* AndroidWindowedAppContext::RequestDestruction, run to completion by thread t;
\* writeOk: the write of the command transfers sizeof(command) bytes.
RequestDestruction(s, t, writeOk) ==
  IF ~s.ctx.ui_thread_looper_callback_registered_
    THEN Delete(s, t, "caller")
    ELSE IF ~writeOk
      THEN Delete(s, t, "caller")
      ELSE ALooper_wake(PipeWrite(s, kDestroy))

\* A call of RequestDestruction by the UI thread, with what the call was seen to
\* do: the flag when it was called, whether a command went into the pipe, whether
\* the context was deleted before the call returned.
CallRequestDestruction(s, writeOk) ==
  LET r == RequestDestruction(s, UI, writeOk)
  IN [r EXCEPT !.obs.rd =
        [called |-> TRUE,
         flag |-> s.ctx.ui_thread_looper_callback_registered_,
         sent |-> r.obs.destroy_sent # s.obs.destroy_sent,
         deleted |-> r.obs.deletes # s.obs.deletes]]

\* AndroidWindowedAppContext::JniActivityOnDestroy
JniActivityOnDestroy(s, writeOk) ==
  CallRequestDestruction(DestroyApp(s, UI), writeOk)

\* PlatformQuitFromUIThread that does not call finish.
PlatformQuitFromUIThread_NoFinish(s) == s

\* AndroidWindowedAppContext::PlatformQuitFromUIThread: asks the activity to
\* finish; all the shutdown is then done in the activity's onDestroy.
PlatformQuitFromUIThread(s) ==
  IF s.ctx.activity_ THEN [s EXCEPT !.sys.finish_requested = TRUE] ELSE s

\* WindowedAppContext::QuitFromUIThread
QuitFromUIThread(s) ==
  PlatformQuitFromUIThread([s EXCEPT !.obs.quits = @ + 1])

\* WindowedAppContext::ExecutePendingFunctionsFromUIThread, the pending-work runner
ExecutePendingFunctionsFromUIThread(s) ==
  [s EXCEPT !.obs.runner = @ + 1,
            !.obs.pending_epf = FALSE,
            !.obs.run_since_return = TRUE]

\* AndroidWindowedAppContext::Initialize; fail names the step that fails.
Initialize(s, fail) ==
  IF fail = "early" THEN Shutdown(s, UI) ELSE
  LET s1 == [s EXCEPT !.ctx.activity_ = TRUE] IN
  IF fail = "looper" THEN Shutdown(s1, UI) ELSE
  LET s2 == [s1 EXCEPT !.ctx.ui_thread_looper_ = TRUE,
                       !.sys.acquires = @ + 1,
                       !.sys.res_log = Append(@, "acquire")] IN
  IF fail = "pipe" THEN Shutdown(s2, UI) ELSE
  LET s3 == [s2 EXCEPT !.ctx.ui_thread_looper_callback_pipe_ = <<TRUE, TRUE>>,
                       !.sys.opens = @ + 2,
                       !.sys.res_log = Append(@, "pipe"),
                       !.sys.pipe = <<>>] IN
  IF fail = "addFd" THEN Shutdown(s3, UI) ELSE
  [s3 EXCEPT !.sys.fd_registered = TRUE,
             !.sys.res_log = Append(@, "addFd"),
             !.ctx.ui_thread_looper_callback_registered_ = TRUE]

\* The application's OnInitialize may send a command while it runs
\* (NotifyUILoopOfPendingFunctions called on the UI thread).
SendFromOnInitialize(s, sends) ==
  IF sends THEN ALooper_wake(PipeWrite(s, kExecutePendingFunctions)) ELSE s

\* AndroidWindowedAppContext::InitializeApp; initOk is what OnInitialize returns,
\* sends whether it has sent a command.
InitializeApp(s, initOk, sends) ==
  LET s1 == SendFromOnInitialize([s EXCEPT !.ctx.app_ = "app"], sends)
  IN IF ~initOk
       THEN [InvokeOnDestroy(s1, UI) EXCEPT !.ctx.app_ = "null",
                                            !.obs.oninit_failed = TRUE]
       ELSE s1

\* AndroidWindowedAppContext::JniActivityInitializeWindowedAppOnCreate
JniActivityInitializeWindowedAppOnCreate(s, fail, initOk, sends, writeOk) ==
  IF fail = "creator" THEN [s EXCEPT !.sys.create_result = "failed"] ELSE
  LET s1 == Initialize([s EXCEPT !.ctx.alloc = "live", !.obs.init_fail = fail], fail) IN
  IF fail # "none"
    THEN [Delete(s1, UI, "create") EXCEPT !.sys.create_result = "failed"]
    ELSE LET s2 == InitializeApp(s1, initOk, sends) IN
         IF ~initOk
           THEN [CallRequestDestruction(s2, writeOk) EXCEPT
                   !.sys.create_result = "failed"]
           ELSE [s2 EXCEPT !.sys.create_result = "ok"]

\* The fatal branches shutting the context down at once.
CallbackFatal_ShutsDown(s) ==
  [st |-> QuitFromUIThread(
            Shutdown([s EXCEPT !.ctx.ui_thread_looper_callback_registered_ = FALSE,
                               !.obs.fatal_active = @ \/ (s.ctx.app_ # "null")],
                     UI)),
   ret |-> 0]

\* The fatal branches leaving the flag as it is.
CallbackFatal_KeepsFlag(s) ==
  [st |-> QuitFromUIThread(
            [s EXCEPT !.obs.fatal_active = @ \/ (s.ctx.app_ # "null")]),
   ret |-> 0]

\* The fatal branches returning 1, so that the descriptor stays registered.
CallbackFatal_StaysRegistered(s) ==
  [st |-> QuitFromUIThread(
            [s EXCEPT !.ctx.ui_thread_looper_callback_registered_ = FALSE,
                      !.obs.fatal_active = @ \/ (s.ctx.app_ # "null")]),
   ret |-> 1]

\* The fatal branches of the callback (lines 319-324 and 340-345): the flag is
\* cleared, the quit path is taken and 0 is returned.
CallbackFatal(s) ==
  [st |-> QuitFromUIThread(
            [s EXCEPT !.ctx.ui_thread_looper_callback_registered_ = FALSE,
                      !.obs.fatal_active = @ \/ (s.ctx.app_ # "null")]),
   ret |-> 0]

\* The dispatch that runs nothing for kExecutePendingFunctions.
CallbackDispatch_SkipsRunner(s, command) ==
  LET s1 == [s EXCEPT !.obs.dispatched = @ + 1] IN
  IF command = kDestroy
    THEN [st |-> Delete([s1 EXCEPT !.ctx.ui_thread_looper_callback_registered_ = FALSE,
                                   !.obs.destroy_dispatched = TRUE],
                        UI, "callback"),
          ret |-> 0]
    ELSE [st |-> s1, ret |-> 1]

\* The dispatch of a command read from the pipe (lines 351-363).
CallbackDispatch(s, command) ==
  LET s1 == [s EXCEPT !.obs.dispatched = @ + 1] IN
  IF command = kDestroy
    THEN [st |-> Delete([s1 EXCEPT !.ctx.ui_thread_looper_callback_registered_ = FALSE,
                                   !.obs.destroy_dispatched = TRUE],
                        UI, "callback"),
          ret |-> 0]
    ELSE [st |-> ExecutePendingFunctionsFromUIThread(s1), ret |-> 1]

\* The callback reading the pipe without having been given an input event.
UIThreadLooperCallback_ReadsWithoutInput(s, events, rr) ==
  IF events = "error" THEN CallbackFatal(s)
  ELSE IF events = "none" /\ s.sys.pipe = <<>> THEN [st |-> s, ret |-> 1]
  ELSE IF rr = "ok"
         THEN CallbackDispatch([s EXCEPT !.sys.pipe = Tail(@)], Head(s.sys.pipe))
       ELSE IF rr = "err" THEN CallbackFatal(s)
       ELSE [st |-> s, ret |-> 1]

\* The callback dispatching whatever a short read has left in command.
UIThreadLooperCallback_DispatchesShort(s, events, rr) ==
  IF events = "error" THEN CallbackFatal(s)
  ELSE IF events = "none" THEN [st |-> s, ret |-> 1]
  ELSE IF rr = "err" THEN CallbackFatal(s)
       ELSE CallbackDispatch([s EXCEPT !.sys.pipe = Tail(@)], Head(s.sys.pipe))

\* The callback reading everything that is in the pipe and dispatching the first
\* command only.
UIThreadLooperCallback_ReadsAll(s, events, rr) ==
  IF events = "error" THEN CallbackFatal(s)
  ELSE IF events = "none" THEN [st |-> s, ret |-> 1]
  ELSE IF rr = "ok"
         THEN CallbackDispatch([s EXCEPT !.sys.pipe = <<>>], Head(s.sys.pipe))
       ELSE IF rr = "err" THEN CallbackFatal(s)
       ELSE [st |-> s, ret |-> 1]

\* AndroidWindowedAppContext::UIThreadLooperCallback: the world after it and the
\* value it returns (0: drop the descriptor, 1: keep it).
UIThreadLooperCallback(s, events, rr) ==
  IF events = "error" THEN CallbackFatal(s)
  ELSE IF events = "none" THEN [st |-> s, ret |-> 1]
  ELSE IF rr = "ok"
         THEN CallbackDispatch([s EXCEPT !.sys.pipe = Tail(@)], Head(s.sys.pipe))
       ELSE IF rr = "err" THEN CallbackFatal(s)
       ELSE [st |-> s, ret |-> 1]

----------------------------------------------------------------------------
\* The UI thread's steps.

\* The activity's onCreate calls initializeWindowedAppOnCreateNative.
Create ==
  /\ sys.create_result = "none"
  /\ \E fail \in FailStages, initOk \in BOOLEAN, sends \in BOOLEAN, writeOk \in BOOLEAN :
       /\ (fail # "none" => initOk /\ ~sends /\ writeOk)
       /\ (initOk => writeOk)
       /\ Fits(JniActivityInitializeWindowedAppOnCreate(World, fail, initOk, sends, writeOk))
       /\ Commit(JniActivityInitializeWindowedAppOnCreate(World, fail, initOk, sends, writeOk))
  /\ UNCHANGED <<pc, calls>>

\* One poll step of the looper that invokes the callback on the registered
\* descriptor; the descriptor stays registered only if the callback returns 1.
LooperCallback(events, rr) ==
  /\ sys.fd_registered
  /\ events = "input" => sys.pipe # <<>>
  /\ events # "input" => rr = "ok"
  /\ sys.broken <=> (events = "error" \/ (events = "input" /\ rr = "err"))
  /\ LET r == UIThreadLooperCallback(World, events, rr)
         d == r.st.obs.iod - obs.iod
     IN Commit([r.st EXCEPT !.sys.fd_registered = @ /\ r.ret = 1,
                            !.sys.res_log = IF r.ret = 1 THEN @ ELSE Append(@, "drop"),
                            !.obs.cb_iod = @ + d,
                            !.obs.last_cb = IF obs.record_cb THEN <<events, rr>>
                                                             ELSE @])
  /\ UNCHANGED <<pc, calls>>

\* The callback dispatches the command at the head of the pipe.
CallbackCommand == LooperCallback("input", "ok")

\* The callback is invoked on a pipe in a fatal state: with an error event, or
\* with an input event and the read fails.
CallbackOnError ==
  \/ LooperCallback("error", "ok")
  \/ LooperCallback("input", "err")

\* The callback is invoked without an input event, or the read is short.
CallbackNoCommand ==
  \/ LooperCallback("none", "ok")
  \/ LooperCallback("input", "short")

\* The pipe of a registered descriptor gets into a fatal state.
PipeBreaks ==
  /\ sys.fd_registered
  /\ ~sys.broken
  /\ sys' = [sys EXCEPT !.broken = TRUE]
  /\ UNCHANGED <<ctx, obs, pc, calls>>

\* The callback that was already signalled when ALooper_removeFd was called runs
\* one last time, on the context given as its data, which has been freed.
LastCallback ==
  /\ sys.last_call
  /\ Commit([World EXCEPT !.sys.last_call = FALSE,
                          !.obs.uaf = @ \/ ~Live(World)])
  /\ UNCHANGED <<pc, calls>>

\* The activity's onDestroy calls onDestroyNative with the context Create
\* returned, once.  On a freed context the call is undefined: ub chooses between
\* a second delete and no visible effect.
ActivityOnDestroy ==
  /\ sys.create_result = "ok"
  /\ ~sys.on_destroy_called
  /\ \E writeOk \in BOOLEAN, ub \in BOOLEAN :
       LET s == [World EXCEPT !.sys.on_destroy_called = TRUE] IN
       IF Live(s)
         THEN /\ ub
              /\ Fits(JniActivityOnDestroy(s, writeOk))
              /\ Commit(JniActivityOnDestroy(s, writeOk))
         ELSE writeOk /\
              Commit(IF ub THEN Delete(s, UI, "caller")
                           ELSE [s EXCEPT !.obs.uaf = TRUE])
  /\ UNCHANGED <<pc, calls>>

----------------------------------------------------------------------------
\* Calls made by the other threads, one step per access to the context.  A step
\* that touches a freed context is undefined: it is recorded and its outcome is
\* chosen freely.

\* A thread of the running application calls NotifyUILoopOfPendingFunctions.
NotifyCall(w) ==
  /\ pc[w] = "idle"
  /\ calls[w] < MaxCalls
  /\ sys.create_result = "ok"
  /\ ctx.app_ # "null"
  /\ pc' = [pc EXCEPT ![w] = "notify_write"]
  /\ calls' = [calls EXCEPT ![w] = @ + 1]
  /\ UNCHANGED <<ctx, sys, obs>>

\* NotifyUILoopOfPendingFunctions, lines 36-44: the write of the command.
NotifyWrite(w) ==
  /\ pc[w] = "notify_write"
  /\ \E writeOk \in BOOLEAN :
       /\ pc' = [pc EXCEPT ![w] = IF writeOk THEN "notify_wake" ELSE "idle"]
       /\ (Live(World) /\ writeOk) =>
            Fits(PipeWrite(World, kExecutePendingFunctions))
       /\ IF Live(World)
            THEN Commit(IF writeOk
                          THEN [PipeWrite(World, kExecutePendingFunctions) EXCEPT
                                  !.obs.ok_sends = TRUE,
                                  !.obs.pending_epf = TRUE]
                          ELSE World)
            ELSE Commit([World EXCEPT !.obs.uaf = TRUE])
  /\ UNCHANGED calls

\* NotifyUILoopOfPendingFunctions, line 45: ALooper_wake(ui_thread_looper_), then
\* the call returns.
NotifyWake(w) ==
  /\ pc[w] = "notify_wake"
  /\ pc' = [pc EXCEPT ![w] = "idle"]
  /\ Commit(IF Live(World)
              THEN [ALooper_wake(World) EXCEPT !.obs.run_since_return = FALSE]
              ELSE [World EXCEPT !.obs.uaf = TRUE,
                                 !.obs.run_since_return = FALSE])
  /\ UNCHANGED calls

\* RequestDestruction called by another thread that holds the context Create
\* returned, before the owner's onDestroy; line 291: the read of the flag.
WorkerRequestDestruction(w) ==
  /\ pc[w] = "idle"
  /\ calls[w] < MaxCalls
  /\ sys.create_result = "ok"
  /\ ~sys.on_destroy_called
  /\ calls' = [calls EXCEPT ![w] = @ + 1]
  /\ IF Live(World)
       THEN /\ pc' = [pc EXCEPT ![w] =
                        IF ctx.ui_thread_looper_callback_registered_
                          THEN "rd_write" ELSE "rd_delete"]
            /\ Commit([World EXCEPT !.obs.flag_off_loop = TRUE])
       ELSE /\ \E flag \in BOOLEAN :
                 pc' = [pc EXCEPT ![w] = IF flag THEN "rd_write" ELSE "rd_delete"]
            /\ Commit([World EXCEPT !.obs.uaf = TRUE, !.obs.rd_uaf = TRUE,
                                    !.obs.flag_off_loop = TRUE])

\* RequestDestruction, lines 295-304: the write of kDestroy.
WorkerDestroyWrite(w) ==
  /\ pc[w] = "rd_write"
  /\ \E writeOk \in BOOLEAN :
       /\ pc' = [pc EXCEPT ![w] = IF writeOk THEN "rd_wake" ELSE "rd_delete"]
       /\ (Live(World) /\ writeOk) => Fits(PipeWrite(World, kDestroy))
       /\ IF Live(World)
            THEN Commit(IF writeOk THEN PipeWrite(World, kDestroy) ELSE World)
            ELSE Commit([World EXCEPT !.obs.uaf = TRUE, !.obs.rd_uaf = TRUE])
  /\ UNCHANGED calls

\* RequestDestruction, lines 292 and 302: delete this.
WorkerDelete(w) ==
  /\ pc[w] = "rd_delete"
  /\ pc' = [pc EXCEPT ![w] = "idle"]
  /\ Commit(Delete(World, w, "caller"))
  /\ UNCHANGED calls

\* RequestDestruction, line 305: ALooper_wake(ui_thread_looper_).
WorkerDestroyWake(w) ==
  /\ pc[w] = "rd_wake"
  /\ pc' = [pc EXCEPT ![w] = "idle"]
  /\ Commit(IF Live(World) THEN ALooper_wake(World)
                           ELSE [World EXCEPT !.obs.uaf = TRUE, !.obs.rd_uaf = TRUE])
  /\ UNCHANGED calls

----------------------------------------------------------------------------
\* The program as it is wired: RequestDestruction is called by
\* JniActivityInitializeWindowedAppOnCreate and JniActivityOnDestroy, on the UI
\* thread; the other threads call NotifyUILoopOfPendingFunctions.
Next ==
  \/ Create
  \/ CallbackCommand
  \/ CallbackOnError
  \/ CallbackNoCommand
  \/ PipeBreaks
  \/ LastCallback
  \/ ActivityOnDestroy
  \/ \E w \in Workers : NotifyCall(w)
  \/ \E w \in Workers : NotifyWrite(w)
  \/ \E w \in Workers : NotifyWake(w)

Spec == Init /\ [][Next]_vars

\* The same program, every invocation of the callback recorded, so that the
\* invocations that change nothing can be told from no step at all.
SpecRecorded == InitRecorded /\ [][Next]_vars

\* The same program with a pipe that holds SmallPipe commands, so that the pipe
\* can be full when a thread writes to it.
SpecSmallPipe == InitSmallPipe /\ [][Next]_vars

\* The looper keeps polling: a command at the head of the pipe of a registered
\* descriptor is eventually read and dispatched, and a fatal state of the pipe is
\* eventually reported; an activity asked to finish eventually gets its
\* onDestroy.
Fairness ==
  /\ WF_vars(CallbackCommand)
  /\ WF_vars(CallbackOnError)
  /\ WF_vars(sys.finish_requested /\ ActivityOnDestroy)

FairSpec == Spec /\ Fairness

\* RequestDestruction used as an entry point of any thread.
NextThreads ==
  \/ Next
  \/ \E w \in Workers : WorkerRequestDestruction(w)
  \/ \E w \in Workers : WorkerDestroyWrite(w)
  \/ \E w \in Workers : WorkerDelete(w)
  \/ \E w \in Workers : WorkerDestroyWake(w)

SpecThreads == Init /\ [][NextThreads]_vars

----------------------------------------------------------------------------
\* Properties.

AllReturned == \A w \in Workers : pc[w] = "idle"
Registered == ctx.ui_thread_looper_callback_registered_

\* C1: however many threads call RequestDestruction, and however often, the
\* context is never deleted twice, and RequestDestruction never touches the
\* context after it has been freed.
C1_SingleDeletion == obs.deletes <= 1 /\ ~obs.rd_uaf

C3_SynchronousWhenUnregistered ==
  (obs.rd.called /\ ~obs.rd.flag) =>
    /\ obs.rd.deleted
    /\ ctx.alloc = "freed"
    /\ obs.deletes = 1
    /\ obs.del_site = "caller"
    /\ obs.del_thread = UI
    /\ ~obs.destroy_sent

C3_Witness == obs.rd.called /\ ~obs.rd.flag /\ ctx.alloc = "freed"

C5_DestroyDispatched ==
  (obs.destroy_sent_sound /\ ~sys.fd_registered) => obs.destroy_dispatched

\* C6: InvokeOnDestroy is called at most once, by the UI thread, while app_ still
\* holds the application; after a successful Create and the owner's onDestroy it
\* has been called exactly once, the context is never freed twice, and it has
\* been freed once the looper is done with the descriptor.
C6_InvokeOnDestroyOnce ==
  /\ obs.iod <= 1
  /\ ~obs.iod_off_loop
  /\ ~obs.iod_on_null
  /\ obs.deletes <= 1
  /\ (sys.create_result = "ok" /\ sys.on_destroy_called) =>
       /\ obs.iod = 1
       /\ ~sys.fd_registered => (obs.deletes = 1 /\ ctx.alloc = "freed")

\* C7: when OnInitialize fails, InvokeOnDestroy has been called exactly once,
\* Create has returned no context, and the context is destroyed, all resources
\* released, once the looper is done with the descriptor.
C7_FailedOnInitialize ==
  obs.oninit_failed =>
    /\ obs.iod = 1
    /\ sys.create_result = "failed"
    /\ ~sys.fd_registered =>
         /\ ctx.alloc = "freed" /\ obs.deletes = 1
         /\ sys.acquires = sys.releases /\ sys.opens = sys.closes

C9_FatalOrderlyShutdown ==
  /\ [](obs.fatal_active =>
          /\ ~Registered \/ ctx.alloc = "freed"
          /\ obs.iod <= 1 /\ obs.deletes <= 1)
  /\ obs.fatal_active ~>
       (ctx.alloc = "freed" /\ obs.iod = 1 /\ obs.deletes = 1)

C9_Witness ==
  /\ obs.fatal_active
  /\ ctx.alloc = "freed" /\ obs.iod = 1 /\ obs.deletes = 1
  /\ obs.del_site = "caller"

C13_FlagOnLoopThreadOnly ==
  /\ ~obs.flag_off_loop
  /\ Registered =>
       (sys.removes = 0 /\ obs.quits = 0 /\ ~obs.destroy_dispatched)

\* C14: a step dispatches at most one command and invokes the runner at most
\* once; a dispatch takes exactly the command at the head of the pipe and leaves
\* the commands behind it in the pipe (unless it was kDestroy, and the pipe is
\* closed with the context); after the dispatch of kExecutePendingFunctions the
\* descriptor is still registered for the next command.  The pipe gets shorter
\* only by such a dispatch or when it is closed.  So n queued commands other
\* than kDestroy take exactly n callbacks that read.
C14_OneCommandPerCallback ==
  [][/\ obs.dispatched' <= obs.dispatched + 1
     /\ obs.runner' <= obs.runner + 1
     /\ obs.dispatched' # obs.dispatched =>
          /\ sys.pipe # <<>>
          /\ (ctx'.alloc = "live" => sys.pipe' = Tail(sys.pipe))
          /\ (Head(sys.pipe) = kExecutePendingFunctions =>
                /\ ctx'.alloc = "live"
                /\ obs.runner' = obs.runner + 1
                /\ sys.fd_registered')
     /\ Len(sys.pipe') < Len(sys.pipe) =>
          (obs.dispatched' = obs.dispatched + 1 \/ sys.closes' # sys.closes)]_vars

C14_Witness ==
  /\ Live(World)
  /\ obs.dispatched = 1 /\ obs.runner = 1
  /\ Len(sys.pipe) = 2
  /\ AllReturned /\ \A w \in Workers : calls[w] = 1

\* The looper has been woken once for each whole command written, but for the
\* writers that are between their write and their wake (as long as no thread
\* has used the context after it was freed).
WakesFollowWrites ==
  ~obs.uaf =>
    sys.wakes + Cardinality({w \in Workers : pc[w] = "notify_wake"}) = obs.writes

C16_FatalOnlyUnregisters ==
  /\ [](obs.quits > 0 /\ Live(World) =>
          /\ ctx.ui_thread_looper_callback_pipe_ = <<TRUE, TRUE>>
          /\ ctx.ui_thread_looper_)
  /\ [][obs.quits' # obs.quits =>
          /\ ctx' = [ctx EXCEPT !.ui_thread_looper_callback_registered_ = FALSE]
          /\ ctx.alloc = "live"
          /\ ~sys.fd_registered'
          /\ sys.pipe' = sys.pipe
          /\ sys.closes' = sys.closes
          /\ sys.releases' = sys.releases
          /\ sys.removes' = sys.removes
          /\ obs.deletes' = obs.deletes
          /\ obs.iod' = obs.iod
          /\ obs.dispatched' = obs.dispatched]_vars

C16_Witness ==
  /\ obs.quits = 1
  /\ Live(World)
  /\ sys.closes = 0 /\ sys.releases = 0 /\ obs.deletes = 0
  /\ \E w \in Workers : pc[w] = "notify_wake"

\* C17: an invocation of the callback whose read returns neither a whole command
\* nor an error changes nothing but what is in the pipe: no dispatch, no runner,
\* no delete, no quit, the flag stays true and the descriptor stays registered
\* with the looper.
C17_ShortReadNotDispatched ==
  [][(obs.last_cb' = <<"input", "short">> /\ obs.last_cb' # obs.last_cb) =>
       /\ ctx' = ctx
       /\ [sys' EXCEPT !.pipe = <<>>] = [sys EXCEPT !.pipe = <<>>]
       /\ obs' = [obs EXCEPT !.last_cb = <<"input", "short">>]
       /\ Live(World)
       /\ Registered' /\ sys.fd_registered']_vars

C17_Witness ==
  /\ obs.last_cb = <<"input", "short">>
  /\ Live(World) /\ Registered /\ sys.fd_registered
  /\ sys.pipe # <<>> /\ Head(sys.pipe) = kDestroy
  /\ obs.dispatched = 0 /\ obs.deletes = 0

\* C20: an invocation of the callback with no error, hangup or invalid event and
\* no input event changes nothing: the pipe is not read, nothing is dispatched,
\* no field of the context changes, and the descriptor stays registered with the
\* looper.
C20_SpuriousWakeChangesNothing ==
  [][(obs.last_cb' = <<"none", "ok">> /\ obs.last_cb' # obs.last_cb) =>
       /\ ctx' = ctx
       /\ sys' = sys
       /\ obs' = [obs EXCEPT !.last_cb = <<"none", "ok">>]
       /\ sys.fd_registered']_vars

C20_Witness ==
  /\ obs.last_cb = <<"none", "ok">>
  /\ Live(World) /\ Registered /\ sys.fd_registered
  /\ Len(sys.pipe) = 2
  /\ obs.dispatched = 0

\* C18: the commands are dispatched in the order they were written: a write
\* puts its command behind all the commands already in the pipe, and the
\* callback dispatches the command at the front (the runner for
\* kExecutePendingFunctions, the delete for kDestroy).  In particular, when the
\* UI thread has written kExecutePendingFunctions (in OnInitialize) and then
\* kDestroy (OnInitialize having failed), the runner has run by the time the
\* context is deleted by the dispatch of that kDestroy.
C18_DispatchInWriteOrder ==
  /\ []((obs.oninit_failed /\ obs.writes = 2 /\ obs.destroy_dispatched) =>
          (obs.runner = 1 /\ obs.dispatched = 2))
  /\ [][/\ (obs.writes' # obs.writes /\ sys.closes' = sys.closes) =>
            /\ Len(sys.pipe') = Len(sys.pipe) + (obs.writes' - obs.writes)
            /\ SubSeq(sys.pipe', 1, Len(sys.pipe)) = sys.pipe
        /\ obs.dispatched' # obs.dispatched =>
            /\ sys.pipe # <<>>
            /\ (Head(sys.pipe) = kExecutePendingFunctions) <=>
                 (obs.runner' # obs.runner)
            /\ (Head(sys.pipe) = kDestroy) <=>
                 (obs.destroy_dispatched' /\ obs.deletes' # obs.deletes)]_vars

C18_Witness ==
  /\ obs.oninit_failed
  /\ obs.writes = 2
  /\ obs.runner = 1
  /\ obs.destroy_dispatched
  /\ ctx.alloc = "freed" /\ obs.del_site = "callback"

\* C19: Shutdown run a second time changes nothing.  On every context that is
\* alive, whatever it holds, Shutdown followed by Shutdown gives the same
\* context, platform and history as Shutdown alone; the same after an
\* Initialize that has failed at any step (and has run Shutdown), where the
\* second Shutdown is the destructor's.  After such a failed Create every
\* descriptor opened has been closed once, the looper has been released as often
\* as acquired, and ALooper_removeFd has not been called.
C19_ShutdownIdempotent ==
  /\ Live(World) =>
       Shutdown(Shutdown(World, UI), UI) = Shutdown(World, UI)
  /\ sys.create_result = "none" =>
       \A fail \in FailStages \ {"none", "creator"} :
         LET s == Initialize([World EXCEPT !.ctx.alloc = "live"], fail)
         IN Shutdown(s, UI) = s
  /\ (obs.init_fail # "none" /\ ctx.alloc = "freed") =>
       /\ sys.closes = sys.opens
       /\ sys.releases = sys.acquires
       /\ sys.removes = 0

C19_Witness ==
  /\ obs.init_fail = "addFd"
  /\ ctx.alloc = "freed" /\ obs.deletes = 1
  /\ sys.opens = 2 /\ sys.closes = 2
  /\ sys.removes = 0

\* C21: a worker thread that has got to the write of its command can complete
\* the write without any step of the UI thread: the pipe has room for the
\* command, whatever the looper has read or not read so far.
C21_WorkerWriteNeverBlocks ==
  \A w \in Workers :
    (pc[w] = "notify_write" /\ Live(World)) =>
      Fits(PipeWrite(World, kExecutePendingFunctions))

\* Call a was made before call b, if both were made.
Before(a, b) ==
  \A i, j \in 1..Len(sys.res_log) :
    (sys.res_log[i] = a /\ sys.res_log[j] = b) => i < j

\* The looper is acquired, then the pipe created, then its read end added to
\* the looper, each at most once, and nothing is given back before the last of
\* them that was made.
AcquiredInOrder ==
  \E n \in 0..3 :
    /\ n <= Len(sys.res_log)
    /\ SubSeq(sys.res_log, 1, n) = SubSeq(<<"acquire", "pipe", "addFd">>, 1, n)
    /\ \A i \in (n + 1)..Len(sys.res_log) :
         sys.res_log[i] \in {"removeFd", "drop", "close", "release"}

\* C22 as stated: the resources are acquired in the order looper, pipe,
\* registration, and given back in the reverse order: the read end is out of the
\* looper (removed by ALooper_removeFd or dropped by the looper) before the pipe
\* is closed, and the pipe is closed before the looper is released.
C22_ReverseOrderRelease ==
  /\ AcquiredInOrder
  /\ Before("removeFd", "close") /\ Before("drop", "close")
  /\ Before("close", "release")
  /\ Before("removeFd", "release") /\ Before("drop", "release")

\* C22, amended: the resources are acquired in the order looper, pipe,
\* registration.  Shutdown calls ALooper_removeFd (if the flag is still set),
\* then closes the pipe, then releases the looper.  When the context is deleted
\* by the callback that dispatches kDestroy, and only then, the read end is
\* still in the looper while the pipe is closed and the looper released: the
\* flag has been cleared, and the looper drops the descriptor when the callback
\* returns 0.
C22_ShutdownOrder ==
  /\ AcquiredInOrder
  /\ Before("removeFd", "close")
  /\ Before("close", "release")
  /\ Before("removeFd", "release")
  /\ ~(Before("drop", "close") /\ Before("drop", "release")) <=>
       obs.destroy_dispatched

C22_Witness ==
  /\ sys.res_log = <<"acquire", "pipe", "addFd", "close", "release", "drop">>
  /\ obs.destroy_dispatched
  /\ ctx.alloc = "freed"

====
